---- MODULE Spec2Model ----
(***************************************************************************)
(* Product scanner back end (server.js): the /api/vision signal fusion     *)
(* pipeline, the /api/search marketplace aggregator and the eBay           *)
(* application-token cache.                                                *)
(*                                                                         *)
(* Representation.  A JavaScript string is a tuple of one-character        *)
(* strings (<<>> is '').  A price is Null, NaN or Num(v) with v the number *)
(* in thousandths (1.25 is Num(1250)); inputs carry at most three          *)
(* fractional digits.  An external service's answer is chosen by \E from   *)
(* a small named set of payloads.                                          *)
(***************************************************************************)
EXTENDS Integers, Sequences, FiniteSets, TLC

VARIABLES
    ebayToken,      \* _ebayToken (NoToken for null / undefined / '')
    ebayTokenExp,   \* _ebayTokenExp, epoch seconds
    hasCreds,       \* EBAY_CLIENT_ID and EBAY_CLIENT_SECRET are both set
    hasAppId,       \* EBAY_APP_ID is set
    clock,          \* the last value Math.floor(Date.now() / 1000) returned
    req,            \* per /api/search request: its locals, the await it is
                    \* suspended at, what it called and what it answered
    vis,            \* the /api/vision request: its locals, the await it is
                    \* suspended at, what it called and what it answered
    fnPc,           \* pure-function harness: "ready" or "done"
    fnArg,          \* pure-function harness: the argument
    fnRet           \* pure-function harness: the value returned

vars == <<ebayToken, ebayTokenExp, hasCreds, hasAppId, clock, req, vis,
          fnPc, fnArg, fnRet>>

searchVars == <<ebayToken, ebayTokenExp, hasCreds, hasAppId, clock, req>>

fnVars == <<fnPc, fnArg, fnRet>>

----------------------------------------------------------------------------
(* JavaScript values *)

Null == [k |-> "null"]
NaN == [k |-> "nan"]
Num(v) == [k |-> "num", v |-> v]

\* !p for a price: null, NaN and 0 are falsy.
Falsy(p) == IF p.k = "num" THEN p.v = 0 ELSE TRUE

Min(a, b) == IF a < b THEN a ELSE b
Max(a, b) == IF a > b THEN a ELSE b

IsSpace(c) == c \in {" ", "\n", "\t"}
IsDigit(c) == c \in {"0", "1", "2", "3", "4", "5", "6", "7", "8", "9"}

DigitVal(c) ==
    CASE c = "0" -> 0 [] c = "1" -> 1 [] c = "2" -> 2 [] c = "3" -> 3
      [] c = "4" -> 4 [] c = "5" -> 5 [] c = "6" -> 6 [] c = "7" -> 7
      [] c = "8" -> 8 [] c = "9" -> 9

RECURSIVE DropSpaces(_)
DropSpaces(s) ==
    IF s # <<>> /\ IsSpace(Head(s)) THEN DropSpaces(Tail(s)) ELSE s

RECURSIVE CollapseSpaces(_)
\* .replace(/\s+/g, ' ')
CollapseSpaces(s) ==
    IF s = <<>> THEN <<>>
    ELSE IF IsSpace(Head(s)) THEN <<" ">> \o CollapseSpaces(DropSpaces(s))
    ELSE <<Head(s)>> \o CollapseSpaces(Tail(s))

RECURSIVE DropTrailingSpaces(_)
DropTrailingSpaces(s) ==
    IF s # <<>> /\ IsSpace(s[Len(s)])
    THEN DropTrailingSpaces(SubSeq(s, 1, Len(s) - 1))
    ELSE s

\* String.prototype.trim
Trim(s) == DropTrailingSpaces(DropSpaces(s))

\* trimTitle(t): (t || '').replace(/\s+/g, ' ').trim(); an absent title is <<>>.
trimTitle(t) == Trim(CollapseSpaces(t))

RECURSIVE DigitRun(_, _)
\* the number of digits of s from position i on
DigitRun(s, i) ==
    IF i <= Len(s) /\ IsDigit(s[i]) THEN 1 + DigitRun(s, i + 1) ELSE 0

RECURSIVE DigitsValue(_, _, _)
\* the value of the n digits of s from position i on
DigitsValue(s, i, n) ==
    IF n = 0 THEN 0
    ELSE 10 * DigitsValue(s, i, n - 1) + DigitVal(s[i + n - 1])

\* the fraction digits s[i .. i+n-1] in thousandths (digits past the third dropped)
FracValue(s, i, n) ==
    LET d(j) == IF j <= n THEN DigitVal(s[i + j - 1]) ELSE 0
    IN  100 * d(1) + 10 * d(2) + d(3)

\* parseFloat(s): leading white space, an optional sign, digits, an optional
\* point and digits; the longest such prefix, NaN when it holds no digit.
parseFloat(s0) ==
    LET s == DropSpaces(s0)
        signed == s # <<>> /\ Head(s) \in {"-", "+"}
        i == IF signed THEN 2 ELSE 1
        n1 == DigitRun(s, i)
        point == i + n1 <= Len(s) /\ s[i + n1] = "."
        n2 == IF point THEN DigitRun(s, i + n1 + 1) ELSE 0
        mag == 1000 * DigitsValue(s, i, n1) + FracValue(s, i + n1 + 1, n2)
    IN  IF n1 + n2 = 0 THEN NaN
        ELSE Num(IF signed /\ Head(s) = "-" THEN 0 - mag ELSE mag)

----------------------------------------------------------------------------
(* Canonical listings and the de-duplication loop of /api/search *)

NoUrl == [kind |-> "null"]
AbsUrl(site, path) == [kind |-> "abs", site |-> site, path |-> path]
RelUrl(path) == [kind |-> "rel", path |-> path]
OtherUrl(path) == [kind |-> "other", path |-> path]

\* sanitizeUrl(url): an absolute http(s) URL is kept; a relative one resolves
\* against https://example.com and is dropped; any other scheme fails the
\* /^https?:\/\//i test.
sanitizeUrl(u) == IF u.kind = "abs" THEN u ELSE NoUrl

\* normCurrency(cur): missing -> EUR, the glyph -> EUR, otherwise upper-cased.
normCurrency(cur) ==
    CASE cur = "" -> "EUR"
      [] cur = "€" -> "EUR"
      [] cur = "eur" -> "EUR"
      [] cur = "gbp" -> "GBP"
      [] cur = "usd" -> "USD"
      [] OTHER -> cur

Listing(title, source, price, currency, url) ==
    [title |-> title, source |-> source, price |-> price,
     currency |-> currency, url |-> url]

\* (r.price || ''): the part of the key the price contributes.  A JavaScript
\* number prints differently from every other number, so the printed price
\* is modelled by the number itself.
PriceKey(p) == IF Falsy(p) THEN <<>> ELSE <<p.v>>

\* (r.title || '') + '|' + (r.price || '') + '|' + (r.source || ''): no source
\* tag holds '|' and no printed number does, so the joined key is one-to-one
\* on the three parts and is modelled by the triple.
DedupKey(r) == <<r.title, PriceKey(r.price), r.source>>

RECURSIVE DedupLoop(_, _, _)
DedupLoop(rs, seen, dedup) ==
    IF rs = <<>> THEN dedup
    ELSE LET r == Head(rs)
             key == DedupKey(r)
         IN  IF key \notin seen /\ r.title # <<>>
             THEN DedupLoop(Tail(rs), seen \cup {key}, Append(dedup, r))
             ELSE DedupLoop(Tail(rs), seen, dedup)

Dedup(rs) == DedupLoop(rs, {}, <<>>)

----------------------------------------------------------------------------
(* What the marketplaces answer: raw items as their APIs and pages give them *)

\* an item of a JSON payload the forEach callback throws on (a null entry, a
\* title that is no string)
Malformed == [malformed |-> TRUE]

\* itemSummaries[i] of the Browse API: title, price {value, currency}, itemWebUrl
BrowseRaw(title, hasPrice, value, currency, url) ==
    [malformed |-> FALSE, title |-> title, hasPrice |-> hasPrice,
     value |-> value, currency |-> currency, url |-> url]

\* searchResult[0].item[i] of the Finding API: currentPrice[0].__value__ is
\* <<>> when absent
FindingRaw(title, value, currency, url) ==
    [malformed |-> FALSE, title |-> title, value |-> value,
     currency |-> currency, url |-> url]

\* a result card of a scraped page: the texts of its title and price elements
\* and the href of its first link
Card(title, priceText, href) ==
    [title |-> title, priceText |-> priceText, href |-> href]

HasTitle(l) == l.title # <<>>

\* the items a forEach visits before its callback throws
FirstMalformed(items) ==
    IF \E i \in DOMAIN items : items[i].malformed
    THEN CHOOSE i \in DOMAIN items :
            /\ items[i].malformed
            /\ \A j \in 1..(i - 1) : ~items[j].malformed
    ELSE Len(items) + 1

Throws(items) == FirstMalformed(items) <= Len(items)

BrowseSource == "eBay (EBAY_GB)"

BrowseListing(it) ==
    Listing(trimTitle(it.title), BrowseSource,
            IF it.hasPrice THEN parseFloat(it.value) ELSE Null,
            normCurrency(IF it.hasPrice THEN it.currency ELSE ""),
            sanitizeUrl(it.url))

\* what items.forEach of callEbayBrowse pushes (up to the item it throws on)
BrowsePushed(items) ==
    SelectSeq([i \in 1..(FirstMalformed(items) - 1) |-> BrowseListing(items[i])],
              HasTitle)

Regions == <<"EBAY-IE", "EBAY-GB", "EBAY-US">>

FindingSource(globalId) == "eBay (" \o globalId \o ")"

FindingListing(it, globalId) ==
    Listing(trimTitle(it.title), FindingSource(globalId),
            IF it.value # <<>> THEN parseFloat(it.value) ELSE Null,
            normCurrency(it.currency),
            sanitizeUrl(it.url))

\* what items.forEach of callFinding pushes (up to the item it throws on)
FindingPushed(items, globalId) ==
    SelectSeq([i \in 1..(FirstMalformed(items) - 1) |->
                  FindingListing(items[i], globalId)],
              HasTitle)

KeepPriceChar(c) == IsDigit(c) \/ c \in {".", ","}

RECURSIVE ReplaceFirstComma(_)
\* .replace(',', '.'): a string pattern replaces the first match only
ReplaceFirstComma(s) ==
    IF s = <<>> THEN <<>>
    ELSE IF Head(s) = "," THEN <<".">> \o Tail(s)
    ELSE <<Head(s)>> \o ReplaceFirstComma(Tail(s))

\* .replace(/[^0-9.,]/g, '').replace(',', '.') then
\* priceText ? parseFloat(priceText) : null
ScrapedPrice(text) ==
    LET priceText == ReplaceFirstComma(SelectSeq(text, KeepPriceChar))
    IN  IF priceText # <<>> THEN parseFloat(priceText) ELSE Null

\* href made absolute against the site's origin unless it already is, then
\* sanitizeUrl; an absent href stays '' and gives null
ScrapedUrl(href, site) ==
    sanitizeUrl(IF href.kind \in {"rel", "other"}
                THEN AbsUrl(site, href.path) ELSE href)

CardCap == 12

ScrapedListing(card, source, site) ==
    Listing(trimTitle(card.title), source, ScrapedPrice(card.priceText),
            "EUR", ScrapedUrl(card.href, site))

\* .slice(0, 12).each(...): the listings of the first twelve cards
ScrapedPushed(cards, source, site) ==
    SelectSeq([i \in 1..Min(CardCap, Len(cards)) |->
                  ScrapedListing(cards[i], source, site)],
              HasTitle)

DoneDealPushed(cards) == ScrapedPushed(cards, "DoneDeal", "https://www.donedeal.ie")
AdvertsPushed(cards) == ScrapedPushed(cards, "Adverts.ie", "https://www.adverts.ie")

----------------------------------------------------------------------------
(* The token cache and the /api/search handler *)

Reqs == {"r1", "r2"}

NoToken == ""

TokenMargin == 60
DefaultLifetime == 7200
FallbackThreshold == 4

NoResponse == [status |-> 0]

\* a request slot nothing runs in
IdleReq ==
    [pc |-> "idle", query |-> "", results |-> <<>>, used |-> FALSE,
     token |-> NoToken, now |-> 0, region |-> 0, trace |-> <<>>,
     found |-> <<>>, got |-> <<>>, resp |-> NoResponse]

Called(s, what) == [s EXCEPT !.trace = Append(@, what)]

\* the provider call that just ended, kept for the record: whether it
\* succeeded and the listings it pushed
Got(s, provider, ok, pushed) ==
    [s EXCEPT !.results = @ \o pushed,
              !.got = Append(@, [provider |-> provider, ok |-> ok,
                                 listings |-> pushed])]

\* a cache that trusts a token until the moment it expires
MutCacheValidNoMargin(tok, exp, now) == tok # NoToken /\ now < exp

\* _ebayToken && now < _ebayTokenExp - 60
CacheValid(tok, exp, now) == tok # NoToken /\ now < exp - TokenMargin

\* scrapeDoneDeal(results, query) up to its axios.get
StartDoneDeal(s) == [Called(Called(s, "scrapeDoneDeal"), "GET donedeal")
                        EXCEPT !.pc = "donedeal"]

\* scrapeAdverts(results, query) up to its axios.get
StartAdverts(s) == [Called(Called(s, "scrapeAdverts"), "GET adverts")
                       EXCEPT !.pc = "adverts"]

\* callFinding(globalId) up to its axios.get
StartRegion(s, i) == [Called(s, "GET finding " \o Regions[i])
                         EXCEPT !.pc = "finding", !.region = i]

\* callEbayFinding(results, query) up to its first await; without EBAY_APP_ID
\* it returns false at once
StartFinding(s, appId) ==
    LET s1 == Called(s, "callEbayFinding")
    IN  IF ~appId THEN StartDoneDeal(Got(s1, "finding", FALSE, <<>>))
        ELSE StartRegion(s1, 1)

\* a handler that counts the distinct listings before it falls back
MutAfterBrowseCountsDistinct(s, ok, pushed, appId) ==
    LET s1 == [Got(s, "browse", ok, pushed) EXCEPT !.used = ok]
    IN  IF ~s1.used \/ Len(Dedup(s1.results)) < FallbackThreshold
        THEN StartFinding(s1, appId)
        ELSE StartDoneDeal(s1)

\* used = await callEbayBrowse(...); if (!used || results.length < 4) ...
AfterBrowse(s, ok, pushed, appId) ==
    LET s1 == [Got(s, "browse", ok, pushed) EXCEPT !.used = ok]
    IN  IF ~s1.used \/ Len(s1.results) < FallbackThreshold
        THEN StartFinding(s1, appId)
        ELSE StartDoneDeal(s1)

\* a callEbayBrowse without its catch: the handler's own catch answers 500
MutBrowseFailedThrows(s, pushed, appId) ==
    [Got(s, "browse", FALSE, pushed)
        EXCEPT !.pc = "done", !.resp = [status |-> 500]]

\* the catch of callEbayBrowse: warn and return false
BrowseFailed(s, pushed, appId) == AfterBrowse(s, FALSE, pushed, appId)

\* callEbayBrowse once it holds a token: the axios.get of the item search
StartBrowseSearch(s, tok) == [Called(s, "GET browse")
                                 EXCEPT !.pc = "browse", !.token = tok]

\* a region chain that goes on until a region returned enough listings
MutAfterRegionWantsEnough(s, ok, pushed) ==
    LET s1 == Got(s, Regions[s.region], ok, pushed)
    IN  IF (~ok \/ Len(pushed) < FallbackThreshold) /\ s.region < Len(Regions)
        THEN StartRegion(s1, s.region + 1)
        ELSE StartDoneDeal(s1)

\* the try of callFinding ended: ok = await callFinding(...); if (!ok) ...
AfterRegion(s, ok, pushed) ==
    LET s1 == Got(s, Regions[s.region], ok, pushed)
    IN  IF ~ok /\ s.region < Len(Regions)
        THEN StartRegion(s1, s.region + 1)
        ELSE StartDoneDeal(s1)

\* a scrapeDoneDeal without its catch: the handler's own catch answers 500
MutDoneDealFailedThrows(s) ==
    [Got(s, "donedeal", FALSE, <<>>)
        EXCEPT !.pc = "done", !.resp = [status |-> 500]]

\* the catch of scrapeDoneDeal: ignore
DoneDealFailed(s) == StartAdverts(Got(s, "donedeal", FALSE, <<>>))

\* a handler that answers the newest listing first
MutRespondNewestFirst(s) ==
    LET dedup == Dedup(s.results)
    IN  [s EXCEPT !.pc = "done",
                  !.resp = [status |-> 200,
                            results |-> [i \in DOMAIN dedup |->
                                            dedup[Len(dedup) + 1 - i]]]]

\* the end of the handler: de-duplicate and answer
Respond(s) ==
    [s EXCEPT !.pc = "done",
              !.resp = [status |-> 200, results |-> Dedup(s.results)]]

\* the catch of scrapeAdverts: ignore
AdvertsFailed(s) == Respond(Got(s, "adverts", FALSE, <<>>))

----------------------------------------------------------------------------
(* Signal bundles: runVisionAllFeatures, extractModelHints, the merge *)

RECURSIVE Uniq(_)
\* Array.from(new Set(xs)): the first occurrence of each element, in order
Uniq(xs) ==
    IF xs = <<>> THEN <<>>
    ELSE LET front == Uniq(SubSeq(xs, 1, Len(xs) - 1))
             last == xs[Len(xs)]
         IN  IF \E i \in DOMAIN front : front[i] = last
             THEN front ELSE Append(front, last)

RECURSIVE SortByScore(_)
\* .sort((a, b) => (b.score || 0) - (a.score || 0)): descending, stable
SortByScore(xs) ==
    IF xs = <<>> THEN <<>>
    ELSE LET front == SortByScore(SubSeq(xs, 1, Len(xs) - 1))
             last == xs[Len(xs)]
             \* last goes behind every element scoring at least as much
             n == Cardinality({i \in DOMAIN front : front[i].score >= last.score})
         IN  SubSeq(front, 1, n) \o <<last>> \o SubSeq(front, n + 1, Len(front))

EntityCap == 12
HintCap == 10

HasDescription(e) == e.description # ""

\* what annotateImage answers, with absent parts empty
RawVision(labels, logos, objects, safe, faces, fullText, firstText, guess, entities) ==
    [labelAnnotations |-> labels, logoAnnotations |-> logos,
     localizedObjectAnnotations |-> objects, safeSearchAnnotation |-> safe,
     faceAnnotations |-> faces, fullText |-> fullText, firstText |-> firstText,
     bestGuessLabel |-> guess, webEntities |-> entities]

\* runVisionAllFeatures once annotateImage has answered: lines 94-114
runVisionAllFeatures(resp) ==
    [labels |-> resp.labelAnnotations,
     logos |-> [i \in DOMAIN resp.logoAnnotations |->
                   resp.logoAnnotations[i].description],
     objects |-> resp.localizedObjectAnnotations,
     safeSearch |-> resp.safeSearchAnnotation,
     faceCount |-> resp.faceAnnotations,
     ocrText |-> IF resp.fullText # <<>> THEN resp.fullText ELSE resp.firstText,
     bestGuess |-> resp.bestGuessLabel,
     webEntities |->
        LET kept == SortByScore(SelectSeq(resp.webEntities, HasDescription))
        IN  [i \in 1..Min(EntityCap, Len(kept)) |-> kept[i].description]]

LowerCase == <<"a", "b", "c", "d", "e", "f", "g", "h", "i", "j", "k", "l", "m",
               "n", "o", "p", "q", "r", "s", "t", "u", "v", "w", "x", "y", "z">>
UpperCase == <<"A", "B", "C", "D", "E", "F", "G", "H", "I", "J", "K", "L", "M",
               "N", "O", "P", "Q", "R", "S", "T", "U", "V", "W", "X", "Y", "Z">>

IsLower(c) == \E i \in DOMAIN LowerCase : LowerCase[i] = c
IsUpper(c) == \E i \in DOMAIN UpperCase : UpperCase[i] = c
IsLetter(c) == IsLower(c) \/ IsUpper(c)

\* toUpperCase, a character at a time
UpperChar(c) ==
    IF IsLower(c) THEN UpperCase[CHOOSE i \in DOMAIN LowerCase : LowerCase[i] = c]
    ELSE c

toUpperCase(s) == [i \in DOMAIN s |-> UpperChar(s[i])]

\* \w
IsWordChar(c) == IsLetter(c) \/ IsDigit(c) \/ c = "_"

\* [A-Z0-9-] under the i flag
IsModelChar(c) == IsLetter(c) \/ IsDigit(c) \/ c = "-"

WordAt(t, i) == i \in DOMAIN t /\ IsWordChar(t[i])

\* \b between positions i and i + 1
Boundary(t, i) == WordAt(t, i) # WordAt(t, i + 1)

RECURSIVE ModelRun(_, _)
\* the number of [A-Z0-9-] characters of t from position i on
ModelRun(t, i) ==
    IF i <= Len(t) /\ IsModelChar(t[i]) THEN 1 + ModelRun(t, i + 1) ELSE 0

\* the longest k in lo..hi with a \b after the k characters from p on (a
\* greedy quantifier backing off), 0 when there is none
LongestToBoundary(t, p, lo, hi) ==
    LET ks == {k \in lo..hi : Boundary(t, p + k - 1)}
    IN  IF ks = {} THEN 0 ELSE CHOOSE k \in ks : \A j \in ks : j <= k

\* the length of the match of /\b[0-9]{4,6}\b/ at p, 0 when none
DigitsMatch(t, p) ==
    IF ~Boundary(t, p - 1) THEN 0
    ELSE LongestToBoundary(t, p, 4, Min(6, DigitRun(t, p)))

\* the length of the match of /\bSM-[A-Z0-9-]+\b/i at p, 0 when none
PrefixMatch(t, p) ==
    IF /\ Boundary(t, p - 1)
       /\ p + 2 <= Len(t)
       /\ UpperChar(t[p]) = "S" /\ UpperChar(t[p + 1]) = "M" /\ t[p + 2] = "-"
    THEN LET k == LongestToBoundary(t, p + 3, 1, ModelRun(t, p + 3))
         IN  IF k = 0 THEN 0 ELSE 3 + k
    ELSE 0

\* the length of the match of
\* /\b(?=[A-Z0-9-]*[0-9])(?=[A-Z0-9-]*[A-Z])[A-Z0-9-]{5,}\b/i at p, 0 when none
GeneralMatch(t, p) ==
    LET run == ModelRun(t, p)
    IN  IF /\ Boundary(t, p - 1)
           /\ \E i \in p..(p + run - 1) : IsDigit(t[i])
           /\ \E i \in p..(p + run - 1) : IsLetter(t[i])
        THEN LongestToBoundary(t, p, 5, run)
        ELSE 0

MatchLen(kind, t, p) ==
    CASE kind = "digits" -> DigitsMatch(t, p)
      [] kind = "prefix" -> PrefixMatch(t, p)
      [] kind = "general" -> GeneralMatch(t, p)

RECURSIVE MatchAll(_, _, _)
\* String.prototype.match with the g flag: the matches from position p on,
\* each search resuming where the last match ended
MatchAll(kind, t, p) ==
    IF p > Len(t) THEN <<>>
    ELSE LET n == MatchLen(kind, t, p)
         IN  IF n > 0
             THEN <<SubSeq(t, p, p + n - 1)>> \o MatchAll(kind, t, p + n)
             ELSE MatchAll(kind, t, p + 1)

UpperAll(ms) == [i \in DOMAIN ms |-> toUpperCase(ms[i])]

\* hints added to the Set as they were read
MutHintsKeepCase(ocrText) ==
    LET hints == Uniq(MatchAll("digits", ocrText, 1)
                      \o MatchAll("prefix", ocrText, 1)
                      \o MatchAll("general", ocrText, 1))
    IN  SubSeq(hints, 1, Min(HintCap, Len(hints)))

\* the last hints kept when there are more than the cap
MutHintsKeepLast(ocrText) ==
    LET hints == Uniq(MatchAll("digits", ocrText, 1)
                      \o UpperAll(MatchAll("prefix", ocrText, 1))
                      \o UpperAll(MatchAll("general", ocrText, 1)))
    IN  SubSeq(hints, Max(1, Len(hints) - HintCap + 1), Len(hints))

\* extractModelHints(ocrText): the three passes add to one Set, in order
extractModelHints(ocrText) ==
    LET hints == Uniq(MatchAll("digits", ocrText, 1)
                      \o UpperAll(MatchAll("prefix", ocrText, 1))
                      \o UpperAll(MatchAll("general", ocrText, 1)))
    IN  SubSeq(hints, 1, Min(HintCap, Len(hints)))

\* [a || '', b || ''].filter(Boolean).join('\n')
JoinTexts(a, b) ==
    IF a = <<>> THEN b ELSE IF b = <<>> THEN a ELSE a \o <<"\n">> \o b

\* a merge that concatenates the logos and the web entities
MutMergeSignalsConcat(merged, cropSignals) ==
    [merged EXCEPT
        !.labels = @ \o cropSignals.labels,
        !.logos = @ \o cropSignals.logos,
        !.objects = @ \o cropSignals.objects,
        !.ocrText = JoinTexts(@, cropSignals.ocrText),
        !.bestGuess = IF @ # "" THEN @ ELSE cropSignals.bestGuess,
        !.webEntities = @ \o cropSignals.webEntities]

\* merged = { ...merged, labels: ..., logos: ..., ... }: lines 222-230
MergeSignals(merged, cropSignals) ==
    [merged EXCEPT
        !.labels = @ \o cropSignals.labels,
        !.logos = Uniq(@ \o cropSignals.logos),
        !.objects = @ \o cropSignals.objects,
        !.ocrText = JoinTexts(@, cropSignals.ocrText),
        !.bestGuess = IF @ # "" THEN @ ELSE cropSignals.bestGuess,
        !.webEntities = Uniq(@ \o cropSignals.webEntities)]

----------------------------------------------------------------------------
(* cropPrimaryObject, runOpenAIVisionExtract and the /api/vision handler *)

MinVertices == 4
PadPercent == 6
MinCropSide == 50

Vertex(x, y) == [x |-> x, y |-> y]

\* Math.max(0, Math.min(1, v)), coordinates in hundredths
Clamp(v) == Max(0, Min(100, v))

SetMin(S) == CHOOSE m \in S : \A v \in S : m <= v
SetMax(S) == CHOOSE m \in S : \A v \in S : m >= v

\* lines 149-161: the padded bounding rectangle of the vertices in pixels of a
\* W x H image (Math.floor and Math.ceil in exact arithmetic)
CropRect(verts, W, H) ==
    LET xs == {Clamp(verts[i].x) : i \in DOMAIN verts}
        ys == {Clamp(verts[i].y) : i \in DOMAIN verts}
        minX == Max(0, SetMin(xs) - PadPercent)
        maxX == Min(100, SetMax(xs) + PadPercent)
        minY == Max(0, SetMin(ys) - PadPercent)
        maxY == Min(100, SetMax(ys) + PadPercent)
        left == (minX * W) \div 100
        topY == (minY * H) \div 100
    IN  [left |-> left, top |-> topY,
         width |-> Min(W - left, ((maxX - minX) * W + 99) \div 100),
         height |-> Min(H - topY, ((maxY - minY) * H + 99) \div 100)]

NoOpinion == [k |-> "null"]

DefaultOpinion ==
    [brand |-> "", model |-> "", product_type |-> "", synonyms |-> <<>>,
     confidence |-> 0]

\* runOpenAIVisionExtract without the try around JSON.parse: text that is no
\* JSON throws into the outer catch
MutExtractNoInnerCatch(reply) ==
    IF reply.kind = "error" THEN NoOpinion
    ELSE IF reply.json \in {"null", "invalid"} THEN NoOpinion
    ELSE IF reply.json = "scalar" THEN DefaultOpinion
    ELSE [brand |-> reply.brand, model |-> reply.model,
          product_type |-> reply.product_type, synonyms |-> reply.synonyms,
          confidence |-> reply.confidence]

\* runOpenAIVisionExtract once the completion call has ended.  A call that
\* fails lands in the outer catch; content that is no JSON is parsed as {};
\* the JSON literal null makes json.brand throw into the outer catch; any
\* other JSON gives its fields, each defaulted when absent or of another type.
runOpenAIVisionExtract(reply) ==
    IF reply.kind = "error" THEN NoOpinion
    ELSE IF reply.json = "null" THEN NoOpinion
    ELSE IF reply.json \in {"invalid", "scalar"} THEN DefaultOpinion
    ELSE [brand |-> reply.brand, model |-> reply.model,
          product_type |-> reply.product_type, synonyms |-> reply.synonyms,
          confidence |-> reply.confidence]

\* lines 236-239: the brand joins the logos, the product type the web entities
FoldOpinion(merged, secondOpinion) ==
    IF secondOpinion = NoOpinion THEN merged
    ELSE [merged EXCEPT
            !.logos = IF secondOpinion.brand # ""
                      THEN Uniq(Append(@, secondOpinion.brand)) ELSE @,
            !.webEntities = IF secondOpinion.product_type # ""
                            THEN Uniq(Append(@, secondOpinion.product_type))
                            ELSE @]

IdleVis ==
    [pc |-> "idle", image |-> "", base |-> <<>>, merged |-> <<>>,
     anns |-> <<>>, top |-> <<>>, crop |-> <<>>, cropSignals |-> <<>>,
     modelHints |-> <<>>, opinionReply |-> <<>>, trace |-> <<>>,
     resp |-> NoResponse]

VCalled(s, what) == [s EXCEPT !.trace = Append(@, what)]

Reject(s, status, error) ==
    [s EXCEPT !.pc = "done", !.resp = [status |-> status, error |-> error]]

\* the catch of the handler: 500
VisionFailed(s) == Reject(s, 500, "vision error")

\* lines 234-235: the hints of the merged text, then the second opinion is asked
StartOpinion(s) ==
    [VCalled(s, "chat.completions")
        EXCEPT !.pc = "opinion",
               !.modelHints = extractModelHints(s.merged[1].ocrText)]

\* cropPrimaryObject returned null: nothing to merge
NoRegion(s) == StartOpinion(s)

\* the crop step without its try: the error reaches the handler's catch
MutCropSkippedThrows(s) == VisionFailed(s)

\* the catch around the crop step: warn and go on
CropSkipped(s) == StartOpinion(s)

\* the handler without the face check
MutAfterPass1NoFaceCheck(s, base) ==
    [VCalled(s, "objectLocalization")
        EXCEPT !.pc = "localize", !.base = <<base>>, !.merged = <<base>>]

\* lines 210-218: the face check, merged = { ...base }, the cropper is called
AfterPass1(s, base) ==
    IF base.faceCount > 0
    THEN Reject([s EXCEPT !.base = <<base>>], 400,
                "Image contains faces. Please upload only product images.")
    ELSE [VCalled(s, "objectLocalization")
            EXCEPT !.pc = "localize", !.base = <<base>>, !.merged = <<base>>]

\* the cropper accepting a region of three vertices
MutAfterLocalizeThreeVertices(s, anns) ==
    LET s1 == [s EXCEPT !.anns = <<anns>>]
    IN  IF anns = <<>> THEN NoRegion(s1)
        ELSE LET top == SortByScore(anns)[1]
             IN  IF Len(top.verts) < MinVertices - 1 THEN NoRegion(s1)
                 ELSE [VCalled(s1, "metadata")
                         EXCEPT !.pc = "metadata", !.top = <<top>>]

\* a cropper that takes the best region among those with 4 vertices
MutAfterLocalizeBestUsable(s, anns) ==
    LET s1 == [s EXCEPT !.anns = <<anns>>]
        usable == SelectSeq(anns, LAMBDA a : Len(a.verts) >= MinVertices)
    IN  IF usable = <<>> THEN NoRegion(s1)
        ELSE [VCalled(s1, "metadata")
                EXCEPT !.pc = "metadata", !.top = <<SortByScore(usable)[1]>>]

\* lines 138-145: the highest-scoring region, its vertices, the image size asked
AfterLocalize(s, anns) ==
    LET s1 == [s EXCEPT !.anns = <<anns>>]
    IN  IF anns = <<>> THEN NoRegion(s1)
        ELSE LET top == SortByScore(anns)[1]
             IN  IF Len(top.verts) < MinVertices THEN NoRegion(s1)
                 ELSE [VCalled(s1, "metadata")
                         EXCEPT !.pc = "metadata", !.top = <<top>>]

\* lines 146-164: the rectangle, and its extraction asked for
AfterMetadata(s, W, H) ==
    IF W = 0 \/ H = 0 THEN NoRegion(s)
    ELSE LET rect == CropRect(s.top[1].verts, W, H)
         IN  IF rect.width < MinCropSide \/ rect.height < MinCropSide
             THEN NoRegion(s)
             ELSE [VCalled(s, "extract")
                     EXCEPT !.pc = "extract", !.crop = <<rect>>]

\* lines 221-231: the crop's signals are merged
AfterPass2(s, cropSignals) ==
    StartOpinion([s EXCEPT !.cropSignals = <<cropSignals>>,
                           !.merged = <<MergeSignals(s.merged[1], cropSignals)>>])

\* lines 235-241: the second opinion is folded in and the bundle answered
AfterOpinion(s, reply) ==
    LET secondOpinion == runOpenAIVisionExtract(reply)
    IN  [s EXCEPT !.pc = "done", !.opinionReply = <<reply>>,
                  !.resp = [status |-> 200,
                            bundle |-> FoldOpinion(s.merged[1], secondOpinion),
                            modelHints |-> s.modelHints,
                            secondOpinion |-> secondOpinion]]

----------------------------------------------------------------------------
(* The answers the model draws from *)

MaxTick == 3
ShortLifetime == 62

\* the seconds a clock read may return: the first ones, and the same ones a
\* default lifetime (less a short one) later
Times ==
    {a + b * (DefaultLifetime - ShortLifetime) : a \in 0..MaxTick, b \in {0, 1}}

Queries == {"", "dyson v8 absolute"}

Failed == [ok |-> FALSE]

\* the token endpoint: an error (transport, timeout, 4xx), a body without
\* access_token, a token with a short lifetime, a token without expires_in
TokenReplies ==
    { Failed,
      [ok |-> TRUE, access_token |-> NoToken, expires_in |-> 0],
      [ok |-> TRUE, access_token |-> "tokA", expires_in |-> ShortLifetime],
      [ok |-> TRUE, access_token |-> "tokB", expires_in |-> 0] }

bV8 == BrowseRaw(<<"v", "8">>, TRUE, <<"9", ".", "5">>, "gbp", AbsUrl("ebay", "/1"))
bV8again == BrowseRaw(<<" ", "v", "8", "\n">>, TRUE, <<"9", ".", "5", "0">>, "gbp",
                      AbsUrl("ebay", "/2"))
bV9 == BrowseRaw(<<"v", "9">>, FALSE, <<>>, "", RelUrl("/3"))
bV9free == BrowseRaw(<<"v", "9">>, TRUE, <<"0", ".", "0", "0">>, "€", OtherUrl("x"))
bOdd == BrowseRaw(<<"d", " ", " ", "8">>, TRUE, <<"P", "O", "A">>, "eur", NoUrl)
bBlank == BrowseRaw(<<" ">>, TRUE, <<"1">>, "eur", NoUrl)
bW1 == BrowseRaw(<<"w", "1">>, TRUE, <<"2", "0">>, "usd", AbsUrl("ebay", "/4"))
bW2 == BrowseRaw(<<"w", "2">>, TRUE, <<"3", "0">>, "usd", AbsUrl("ebay", "/5"))

BrowsePayloads ==
    { <<bV8, bV9, bBlank, bW1>>,
      <<bV8, bV8again, bV9, bV9free>>,
      <<bV8, bV9, bOdd, bW1, bW2>>,
      <<bV8, bV9, Malformed, bW1>>,
      <<bV8, bV9, bOdd, bW1, bW2, Malformed>> }

BrowseReplies == {Failed} \cup {[ok |-> TRUE, items |-> p] : p \in BrowsePayloads}

fV8 == FindingRaw(<<"v", "8">>, <<"9", ".", "5">>, "eur", AbsUrl("ebay", "/6"))
fV8again == FindingRaw(<<"v", "8">>, <<"9", ".", "5">>, "", AbsUrl("ebay", "/7"))
fV9 == FindingRaw(<<"v", "9">>, <<>>, "gbp", NoUrl)

FindingPayloads == { <<fV8, fV8again, fV9>>, <<fV9, Malformed>> }

FindingReplies == {Failed} \cup {[ok |-> TRUE, items |-> p] : p \in FindingPayloads}

cV8 == Card(<<"v", "8">>, <<"€", "4", "5", ",", "9", "9">>, RelUrl("/a"))
cV8poa == Card(<<"v", "8">>, <<"P", "O", "A">>, NoUrl)
cV8free == Card(<<"v", "8">>, <<"€", "0">>, AbsUrl("other", "/b"))
cBlank == Card(<<>>, <<"5">>, NoUrl)
cV9 == Card(<<"v", "9">>, <<"€", "1", ",", "2", "5", "0">>, OtherUrl("c"))
cV9b == Card(<<"v", "9">>, <<"€", "1", ".", "2", "5", "0", ",", "5", "0">>, NoUrl)

Letters == <<"a", "b", "c", "d", "e", "f", "g", "h">>

\* a page of CardCap + 1 cards
Page ==
    <<cV8, cV8poa, cV8free, cBlank, cV9, cV9b>> \o
    [i \in 1..(CardCap - 5) |-> Card(<<Letters[i]>>, <<"7">>, RelUrl("/p"))]

CardPayloads == { Page }

CardReplies == {Failed} \cup {[ok |-> TRUE, items |-> p] : p \in CardPayloads}

----------------------------------------------------------------------------
(* getEbayAppToken and the steps of app.post('/api/search') *)

\* _ebayTokenExp = now + (resp.data.expires_in || 7200)
TokenExpiry(now, expires_in) ==
    now + (IF expires_in = 0 THEN DefaultLifetime ELSE expires_in)

\* a getEbayAppToken that sends the exchange whether or not it has credentials
MutAcquireTokenNoCredsCheck(s, tok, exp, creds, appId) ==
    IF CacheValid(tok, exp, s.now) THEN StartBrowseSearch(s, tok)
    ELSE [Called(s, "POST token") EXCEPT !.pc = "token"]

\* getEbayAppToken up to its first await, inside callEbayBrowse: the cached
\* token, no token (credentials not configured), or the exchange is sent
AcquireToken(s, tok, exp, creds, appId) ==
    IF CacheValid(tok, exp, s.now) THEN StartBrowseSearch(s, tok)
    ELSE IF ~creds THEN AfterBrowse(s, FALSE, <<>>, appId)
    ELSE [Called(s, "POST token") EXCEPT !.pc = "token"]

\* the handler up to its first await: validation, then callEbayBrowse calls
\* getEbayAppToken, which reads the clock
SearchBegin(r) ==
    /\ req[r].pc \in {"idle", "done"}
    /\ \E q \in Queries :
         IF q = ""
         THEN /\ req' = [req EXCEPT ![r] =
                    [IdleReq EXCEPT !.pc = "done", !.query = q,
                        !.resp = [status |-> 400, error |-> "query required"]]]
              /\ UNCHANGED clock
         ELSE \E t \in Times :
                /\ t >= clock
                /\ clock' = t
                /\ req' = [req EXCEPT ![r] =
                      AcquireToken(
                        [IdleReq EXCEPT !.query = q, !.now = t,
                            !.found = <<[token |-> ebayToken, exp |-> ebayTokenExp]>>,
                            !.trace = <<"callEbayBrowse", "getEbayAppToken">>],
                        ebayToken, ebayTokenExp, hasCreds, hasAppId)]
    /\ UNCHANGED <<ebayToken, ebayTokenExp, hasCreds, hasAppId, vis, fnVars>>

\* a cache that keeps the token it holds when a second exchange completes
MutTokenReplyFirstWins(r) ==
    /\ req[r].pc = "token"
    /\ \E reply \in TokenReplies :
         IF ~reply.ok
         THEN /\ req' = [req EXCEPT ![r] =
                    BrowseFailed(Got(req[r], "token", FALSE, <<>>), <<>>, hasAppId)]
              /\ UNCHANGED <<ebayToken, ebayTokenExp>>
         ELSE /\ IF ebayToken = NoToken
                 THEN /\ ebayToken' = reply.access_token
                      /\ ebayTokenExp' = TokenExpiry(req[r].now, reply.expires_in)
                 ELSE UNCHANGED <<ebayToken, ebayTokenExp>>
              /\ req' = [req EXCEPT ![r] =
                    LET s == Got(req[r], "token", TRUE, <<>>)
                    IN  IF reply.access_token = NoToken
                        THEN AfterBrowse(s, FALSE, <<>>, hasAppId)
                        ELSE StartBrowseSearch(s, reply.access_token)]
    /\ UNCHANGED <<hasCreds, hasAppId, clock, vis, fnVars>>

\* a getEbayAppToken that empties the slot when the exchange fails
MutTokenReplyFailureClears(r) ==
    /\ req[r].pc = "token"
    /\ \E reply \in TokenReplies :
         IF ~reply.ok
         THEN /\ req' = [req EXCEPT ![r] =
                    BrowseFailed(Got(req[r], "token", FALSE, <<>>), <<>>, hasAppId)]
              /\ ebayToken' = NoToken
              /\ ebayTokenExp' = 0
         ELSE /\ ebayToken' = reply.access_token
              /\ ebayTokenExp' = TokenExpiry(req[r].now, reply.expires_in)
              /\ req' = [req EXCEPT ![r] =
                    LET s == Got(req[r], "token", TRUE, <<>>)
                    IN  IF reply.access_token = NoToken
                        THEN AfterBrowse(s, FALSE, <<>>, hasAppId)
                        ELSE StartBrowseSearch(s, reply.access_token)]
    /\ UNCHANGED <<hasCreds, hasAppId, clock, vis, fnVars>>

\* the token endpoint answered: the slot is overwritten and the token
\* returned; an error is caught by callEbayBrowse.  Whether the exchange
\* succeeded is kept for the record
TokenReply(r) ==
    /\ req[r].pc = "token"
    /\ \E reply \in TokenReplies :
         IF ~reply.ok
         THEN /\ req' = [req EXCEPT ![r] =
                    BrowseFailed(Got(req[r], "token", FALSE, <<>>), <<>>, hasAppId)]
              /\ UNCHANGED <<ebayToken, ebayTokenExp>>
         ELSE /\ ebayToken' = reply.access_token
              /\ ebayTokenExp' = TokenExpiry(req[r].now, reply.expires_in)
              /\ req' = [req EXCEPT ![r] =
                    LET s == Got(req[r], "token", TRUE, <<>>)
                    IN  IF reply.access_token = NoToken
                        THEN AfterBrowse(s, FALSE, <<>>, hasAppId)
                        ELSE StartBrowseSearch(s, reply.access_token)]
    /\ UNCHANGED <<hasCreds, hasAppId, clock, vis, fnVars>>

\* the item search answered
BrowseReply(r) ==
    /\ req[r].pc = "browse"
    /\ \E reply \in BrowseReplies :
         req' = [req EXCEPT ![r] =
            IF ~reply.ok THEN BrowseFailed(req[r], <<>>, hasAppId)
            ELSE IF Throws(reply.items)
            THEN BrowseFailed(req[r], BrowsePushed(reply.items), hasAppId)
            ELSE AfterBrowse(req[r], TRUE, BrowsePushed(reply.items), hasAppId)]
    /\ UNCHANGED <<ebayToken, ebayTokenExp, hasCreds, hasAppId, clock, vis, fnVars>>

\* the Finding API answered for the region awaited
FindingReply(r) ==
    /\ req[r].pc = "finding"
    /\ \E reply \in FindingReplies :
         req' = [req EXCEPT ![r] =
            IF ~reply.ok THEN AfterRegion(req[r], FALSE, <<>>)
            ELSE AfterRegion(req[r], ~Throws(reply.items),
                    FindingPushed(reply.items, Regions[req[r].region]))]
    /\ UNCHANGED <<ebayToken, ebayTokenExp, hasCreds, hasAppId, clock, vis, fnVars>>

\* the DoneDeal page arrived, or did not
DoneDealReply(r) ==
    /\ req[r].pc = "donedeal"
    /\ \E reply \in CardReplies :
         req' = [req EXCEPT ![r] =
            IF ~reply.ok THEN DoneDealFailed(req[r])
            ELSE StartAdverts(Got(req[r], "donedeal", TRUE,
                                  DoneDealPushed(reply.items)))]
    /\ UNCHANGED <<ebayToken, ebayTokenExp, hasCreds, hasAppId, clock, vis, fnVars>>

\* the Adverts page arrived, or did not; the handler de-duplicates and answers
AdvertsReply(r) ==
    /\ req[r].pc = "adverts"
    /\ \E reply \in CardReplies :
         req' = [req EXCEPT ![r] =
            IF ~reply.ok THEN AdvertsFailed(req[r])
            ELSE Respond(Got(req[r], "adverts", TRUE,
                             AdvertsPushed(reply.items)))]
    /\ UNCHANGED <<ebayToken, ebayTokenExp, hasCreds, hasAppId, clock, vis, fnVars>>

\* requests served one after the other
Serial == {"r1"}

FnOff == fnPc = "off" /\ fnArg = <<>> /\ fnRet = <<>>

InitSearch ==
    /\ ebayToken = NoToken
    /\ ebayTokenExp = 0
    /\ hasCreds \in BOOLEAN
    /\ hasAppId \in BOOLEAN
    /\ clock = 0
    /\ req = [r \in Reqs |-> IdleReq]
    /\ vis = IdleVis
    /\ FnOff

NextSearch ==
    \E r \in Serial :
        \/ SearchBegin(r)
        \/ TokenReply(r)
        \/ BrowseReply(r)
        \/ FindingReply(r)
        \/ DoneDealReply(r)
        \/ AdvertsReply(r)

SpecSearch == InitSearch /\ [][NextSearch]_vars

----------------------------------------------------------------------------
(* The de-duplication loop on its own *)

MaxListings == 3

DedupTitles == {<<"v", "8">>, <<"v", "9">>}
DedupPrices == {Null, NaN, Num(0), Num(9500)}
DedupSources == <<BrowseSource, "DoneDeal">>
DedupUrls == {NoUrl, AbsUrl("ebay", "/1")}

DedupListings ==
    {Listing(t, DedupSources[i], p, "EUR", u) :
        t \in DedupTitles, i \in DOMAIN DedupSources, p \in DedupPrices,
        u \in DedupUrls}

SourceRank(l) == CHOOSE i \in DOMAIN DedupSources : DedupSources[i] = l.source

\* results as the handler collects it: titles are non-empty and the listings
\* of an earlier provider come first
DedupInputs ==
    {rs \in UNION {[1..n -> DedupListings] : n \in 0..MaxListings} :
        \A i, j \in DOMAIN rs : i < j => SourceRank(rs[i]) <= SourceRank(rs[j])}

InitDedup ==
    /\ ebayToken = NoToken
    /\ ebayTokenExp = 0
    /\ hasCreds = FALSE
    /\ hasAppId = FALSE
    /\ clock = 0
    /\ req = [r \in Reqs |-> IdleReq]
    /\ vis = IdleVis
    /\ fnPc = "ready"
    /\ fnArg \in DedupInputs
    /\ fnRet = <<>>

\* the loop over results, lines 483-488
ApplyDedup ==
    /\ fnPc = "ready"
    /\ fnRet' = Dedup(fnArg)
    /\ fnPc' = "done"
    /\ UNCHANGED <<fnArg, searchVars, vis>>

NextDedup == ApplyDedup

SpecDedup == InitDedup /\ [][NextDedup]_vars

----------------------------------------------------------------------------
(* The steps of app.post('/api/vision') and what its services answer *)

\* imageBase64: absent or '', a string that decodes to zero bytes, an image
Images == {"", "undecodable", "image"}

Label(description, score) == [description |-> description, score |-> score]
Entity(description, score) == [description |-> description, score |-> score]
Logo(description) == [description |-> description]

Square(lo, hi) == <<Vertex(lo, lo), Vertex(hi, lo), Vertex(hi, hi), Vertex(lo, hi)>>

Object(name, score, verts) == [name |-> name, score |-> score, verts |-> verts]

ocrModel ==
    <<"M", "o", "d", "e", "l", " ", "S", "M", "-", "G", "9", "9", "1", "B", " ",
      "s", "p", "a", "r", "e", " ", "p", "a", "r", "t", " ",
      "1", "2", "3", "4", "5", "6">>
ocrLower == <<"s", "m", "-", "g", "9", "9", "1", "b", " ", "V", "8">>

rPlain ==
    RawVision(<<Label("Vacuum", 90), Label("Vacuum", 80)>>,
              <<Logo("Dyson")>>,
              <<Object("Vacuum cleaner", 80, Square(20, 80))>>,
              "unlikely", 0, ocrModel, <<"x">>, "dyson v8",
              <<Entity("Vacuum", 70), Entity("", 95), Entity("Dyson", 90),
                Entity("Vacuum", 50)>>)

rFace ==
    RawVision(<<Label("Person", 90)>>, <<Logo("Nike")>>, <<>>, "possible", 2,
              <<>>, <<>>, "selfie", <<Entity("Face", 90)>>)

rBare ==
    RawVision(<<>>, <<>>, <<>>, "", 0, <<>>, ocrLower, "", <<>>)

\* more entities than are kept, equal scores, the same logo twice
rMany ==
    RawVision(<<Label("Shoe", 90)>>,
              <<Logo("Nike"), Logo("nike"), Logo("Nike")>>,
              <<Object("Shoe", 60, Square(40, 60))>>,
              "unlikely", 0, <<>>, <<>>, "nike air",
              [i \in 1..(EntityCap + 1) |->
                 Entity(<<"Shoe", "Nike", "Sneaker", "Dyson", "e5", "e6", "e7",
                          "e8", "e9", "e10", "e11", "e12", "e13">>[i],
                        IF i = EntityCap + 1 THEN 99 ELSE 50)])

RawResponses == {rPlain, rFace, rBare, rMany}

VisionReplies == {Failed} \cup {[ok |-> TRUE, resp |-> r] : r \in RawResponses}

Triangle == <<Vertex(10, 10), Vertex(90, 10), Vertex(50, 90)>>

\* what objectLocalization answers: none; the best region a triangle; two of
\* equal score; the best one last, a small one first; no boundingPoly
AnnPayloads ==
    { <<>>,
      <<Object("a", 90, Triangle), Object("b", 50, Square(20, 80))>>,
      <<Object("a", 50, Square(20, 80)), Object("b", 50, Square(50, 52))>>,
      <<Object("a", 40, Square(50, 52)), Object("b", 0, <<>>),
        Object("c", 80, Square(-5, 120))>>,
      <<Object("a", 70, <<>>)>> }

LocalizeReplies == {Failed} \cup {[ok |-> TRUE, anns |-> a] : a \in AnnPayloads}

\* what sharp's metadata gives: no size, a small image, a large one
MetadataReplies ==
    {Failed} \cup
    {[ok |-> TRUE, width |-> d[1], height |-> d[2]] :
        d \in {<<0, 0>>, <<400, 0>>, <<400, 300>>, <<1600, 1200>>}}

OpinionContent(json, brand, product_type) ==
    [kind |-> "content", json |-> json, brand |-> brand, model |-> "",
     product_type |-> product_type, synonyms |-> <<>>, confidence |-> 0]

\* what the completion call gives: an error; text that is no JSON; the JSON
\* literal null; a JSON number; JSON objects
OpinionReplies ==
    { [kind |-> "error"],
      OpinionContent("invalid", "", ""),
      OpinionContent("null", "", ""),
      OpinionContent("scalar", "", ""),
      OpinionContent("object", "", ""),
      OpinionContent("object", "Dyson", "Vacuum"),
      OpinionContent("object", "Samsung", ""),
      OpinionContent("object", "", "Phone") }

\* a handler that does not look at the decoded length
MutVisionBeginNoLengthCheck ==
    /\ vis.pc \in {"idle", "done"}
    /\ \E img \in Images :
         vis' = IF img = ""
                THEN Reject([IdleVis EXCEPT !.image = img], 400, "imageBase64 required")
                ELSE [VCalled([IdleVis EXCEPT !.image = img], "prepForOCR")
                        EXCEPT !.pc = "prep"]
    /\ UNCHANGED <<searchVars, fnVars>>

\* lines 203-209: validation, then the first prepForOCR
VisionBegin ==
    /\ vis.pc \in {"idle", "done"}
    /\ \E img \in Images :
         vis' = IF img = ""
                THEN Reject([IdleVis EXCEPT !.image = img], 400, "imageBase64 required")
                ELSE IF img = "undecodable"
                THEN Reject([IdleVis EXCEPT !.image = img], 400, "bad image")
                ELSE [VCalled([IdleVis EXCEPT !.image = img], "prepForOCR")
                        EXCEPT !.pc = "prep"]
    /\ UNCHANGED <<searchVars, fnVars>>

\* prepForOCR(raw) ended
PrepReply ==
    /\ vis.pc = "prep"
    /\ \E ok \in BOOLEAN :
         vis' = IF ~ok THEN VisionFailed(vis)
                ELSE [VCalled(vis, "annotateImage") EXCEPT !.pc = "pass1"]
    /\ UNCHANGED <<searchVars, fnVars>>

\* runVisionAllFeatures(cleaned) ended
Pass1Reply ==
    /\ vis.pc = "pass1"
    /\ \E reply \in VisionReplies :
         vis' = IF ~reply.ok THEN VisionFailed(vis)
                ELSE AfterPass1(vis, runVisionAllFeatures(reply.resp))
    /\ UNCHANGED <<searchVars, fnVars>>

\* visionClient.objectLocalization ended
LocalizeReply ==
    /\ vis.pc = "localize"
    /\ \E reply \in LocalizeReplies :
         vis' = IF ~reply.ok THEN CropSkipped(vis)
                ELSE AfterLocalize(vis, reply.anns)
    /\ UNCHANGED <<searchVars, fnVars>>

\* img.metadata() ended
MetadataReply ==
    /\ vis.pc = "metadata"
    /\ \E reply \in MetadataReplies :
         vis' = IF ~reply.ok THEN CropSkipped(vis)
                ELSE AfterMetadata(vis, reply.width, reply.height)
    /\ UNCHANGED <<searchVars, fnVars>>

\* img.extract(...).toBuffer() ended; the crop is preprocessed
ExtractReply ==
    /\ vis.pc = "extract"
    /\ \E ok \in BOOLEAN :
         vis' = IF ~ok THEN CropSkipped(vis)
                ELSE [VCalled(vis, "prepForOCR") EXCEPT !.pc = "cropPrep"]
    /\ UNCHANGED <<searchVars, fnVars>>

\* prepForOCR(crop) ended
CropPrepReply ==
    /\ vis.pc = "cropPrep"
    /\ \E ok \in BOOLEAN :
         vis' = IF ~ok THEN CropSkipped(vis)
                ELSE [VCalled(vis, "annotateImage") EXCEPT !.pc = "pass2"]
    /\ UNCHANGED <<searchVars, fnVars>>

\* runVisionAllFeatures(cropClean) ended
Pass2Reply ==
    /\ vis.pc = "pass2"
    /\ \E reply \in VisionReplies :
         vis' = IF ~reply.ok THEN CropSkipped(vis)
                ELSE AfterPass2(vis, runVisionAllFeatures(reply.resp))
    /\ UNCHANGED <<searchVars, fnVars>>

\* openai.chat.completions.create ended
OpinionReply ==
    /\ vis.pc = "opinion"
    /\ \E reply \in OpinionReplies : vis' = AfterOpinion(vis, reply)
    /\ UNCHANGED <<searchVars, fnVars>>

InitVision ==
    /\ ebayToken = NoToken
    /\ ebayTokenExp = 0
    /\ hasCreds = FALSE
    /\ hasAppId = FALSE
    /\ clock = 0
    /\ req = [r \in Reqs |-> IdleReq]
    /\ vis = IdleVis
    /\ FnOff

NextVision ==
    \/ VisionBegin
    \/ PrepReply
    \/ Pass1Reply
    \/ LocalizeReply
    \/ MetadataReply
    \/ ExtractReply
    \/ CropPrepReply
    \/ Pass2Reply
    \/ OpinionReply

SpecVision == InitVision /\ [][NextVision]_vars

----------------------------------------------------------------------------
(* getEbayAppToken called by requests in flight together *)

\* two requests, each taken as far as the call of getEbayAppToken goes: the
\* steps behind it leave the cache alone
NextRace ==
    \E r \in Reqs :
        \/ SearchBegin(r)
        \/ TokenReply(r)

SpecRace == InitSearch /\ [][NextRace]_vars

----------------------------------------------------------------------------
(* The price of a scraped card on its own *)

MaxGroups == 1

PriceSymbols == {<<>>, <<"€">>}
LeadGroups == {<<"1">>, <<"4", "5">>, <<"2", "5", "0">>}
ThousandGroups == {<<"2", "5", "0">>, <<"0", "0", "0">>}
Fractions == {<<>>, <<"5">>, <<"5", "0">>, <<"9", "9">>}

\* how a site writes numbers: the thousands separator and the decimal mark
PriceStyles ==
    { [thousands |-> <<",">>, decimal |-> <<".">>],
      [thousands |-> <<".">>, decimal |-> <<",">>],
      [thousands |-> <<>>, decimal |-> <<",">>],
      [thousands |-> <<>>, decimal |-> <<".">>] }

RECURSIVE JoinGroups(_, _)
\* the groups of gs, each behind the separator sep
JoinGroups(gs, sep) ==
    IF gs = <<>> THEN <<>> ELSE sep \o Head(gs) \o JoinGroups(Tail(gs), sep)

\* the text of a price element and the amount, in thousandths, it shows
PriceTag(sym, lead, groups, frac, style) ==
    LET whole == lead \o JoinGroups(groups, <<>>)
    IN  [text |-> sym \o lead \o JoinGroups(groups, style.thousands)
                      \o (IF frac = <<>> THEN <<>> ELSE style.decimal \o frac),
         shown |-> TRUE,
         amount |-> 1000 * DigitsValue(whole, 1, Len(whole))
                        + FracValue(frac, 1, Len(frac))]

\* a card without a price element: .text() gives ''
NoPriceTag == [text |-> <<>>, shown |-> FALSE, amount |-> 0]

PriceTags ==
    {NoPriceTag} \cup
    {PriceTag(sym, lead, groups, frac, style) :
        sym \in PriceSymbols, lead \in LeadGroups,
        groups \in UNION {[1..n -> ThousandGroups] : n \in 0..MaxGroups},
        frac \in Fractions, style \in PriceStyles}

InitPrice ==
    /\ ebayToken = NoToken
    /\ ebayTokenExp = 0
    /\ hasCreds = FALSE
    /\ hasAppId = FALSE
    /\ clock = 0
    /\ req = [r \in Reqs |-> IdleReq]
    /\ vis = IdleVis
    /\ fnPc = "ready"
    /\ fnArg \in PriceTags
    /\ fnRet = <<>>

\* const price = priceText ? parseFloat(priceText) : null, in either scraper
ApplyPrice ==
    /\ fnPc = "ready"
    /\ fnPc' = "done"
    /\ fnRet' = <<ScrapedPrice(fnArg.text)>>
    /\ UNCHANGED <<fnArg, searchVars, vis>>

NextPrice == ApplyPrice

SpecPrice == InitPrice /\ [][NextPrice]_vars

----------------------------------------------------------------------------
(* Both handlers of one server *)

\* a search step, taken while /api/vision has no call outstanding
ServeSearch == vis.trace = <<>> /\ NextSearch

\* a vision step, taken while /api/search has no call outstanding and the
\* token cache and the clock are as they were at the start
ServeVision ==
    /\ \A r \in Reqs : req[r].trace = <<>>
    /\ ebayToken = NoToken /\ ebayTokenExp = 0 /\ clock = 0
    /\ NextVision

NextServer ==
    \/ ServeSearch
    \/ ServeVision

\* the handlers share no variable: the steps of one are interleaved with the
\* other's only around requests that made no call
SpecServer == InitSearch /\ [][NextServer]_vars

----------------------------------------------------------------------------
(* extractModelHints on its own *)

MaxWords == 3

\* words an OCR text is made of: digit runs of 4, 3 and 7, a vendor model in
\* lower and in upper case, a short one in mixed case, a general token, a
\* digit run behind an underscore, letters only, a digit run behind a hyphen
HintWords ==
    { <<"1", "2", "3", "4">>,
      <<"1", "2", "3">>,
      <<"1", "2", "3", "4", "5", "6", "7">>,
      <<"s", "m", "-", "g", "9", "9", "1", "b">>,
      <<"S", "M", "-", "G", "9", "9", "1", "B">>,
      <<"S", "m", "-", "a", "5">>,
      <<"a", "b", "1", "2", "c">>,
      <<"x", "_", "1", "2", "3", "4">>,
      <<"a", "b", "c", "d", "e">>,
      <<"A", "B", "-", "1", "2", "3", "4">> }

RECURSIVE JoinWords(_)
\* the words of ws with one space between them
JoinWords(ws) ==
    IF ws = <<>> THEN <<>>
    ELSE IF Len(ws) = 1 THEN ws[1]
    ELSE ws[1] \o <<" ">> \o JoinWords(Tail(ws))

\* eleven part numbers and a vendor model: more candidates than are kept
ocrMany ==
    <<"1", "0", "0", "0", " ", "1", "0", "0", "1", " ", "1", "0">>
    \o <<"0", "2", " ", "1", "0", "0", "3", " ", "1", "0", "0", "4">>
    \o <<" ", "1", "0", "0", "5", " ", "1", "0", "0", "6", " ", "1">>
    \o <<"0", "0", "7", " ", "1", "0", "0", "8", " ", "1", "0", "0">>
    \o <<"9", " ", "1", "0", "1", "0", " ", "s", "m", "-", "a", "5">>

\* the texts extractModelHints is applied to
HintTexts ==
    {JoinWords(ws) : ws \in UNION {[1..n -> HintWords] : n \in 0..MaxWords}}
        \cup {ocrModel, ocrLower, ocrMany, JoinTexts(ocrModel, ocrLower)}

InitHints ==
    /\ ebayToken = NoToken
    /\ ebayTokenExp = 0
    /\ hasCreds = FALSE
    /\ hasAppId = FALSE
    /\ clock = 0
    /\ req = [r \in Reqs |-> IdleReq]
    /\ vis = IdleVis
    /\ fnPc = "ready"
    /\ fnArg \in HintTexts
    /\ fnRet = <<>>

\* const modelHints = extractModelHints(merged.ocrText)
ApplyHints ==
    /\ fnPc = "ready"
    /\ fnPc' = "done"
    /\ fnRet' = extractModelHints(fnArg)
    /\ UNCHANGED <<fnArg, searchVars, vis>>

NextHints == ApplyHints

SpecHints == InitHints /\ [][NextHints]_vars

----------------------------------------------------------------------------
(* Reading a request's record *)

Count(tr, what) == Cardinality({i \in DOMAIN tr : tr[i] = what})

\* the positions of a provider's entry in a request's record of provider calls
GotAt(s, provider) == {i \in DOMAIN s.got : s.got[i].provider = provider}

IsRegionCall(what) == \E i \in DOMAIN Regions : what = "GET finding " \o Regions[i]

\* the Finding requests a search sent, in the order sent
RegionCalls(s) == SelectSeq(s.trace, IsRegionCall)

SearchDone(s) == s.pc = "done" /\ s.query # ""

RECURSIVE Flatten(_)
Flatten(ss) == IF ss = <<>> THEN <<>> ELSE Head(ss) \o Flatten(Tail(ss))

\* the listings every provider call of a search pushed, in order
Collected(s) == Flatten([i \in DOMAIN s.got |-> s.got[i].listings])

----------------------------------------------------------------------------
(* /api/vision *)

\* C1: when the first analysis pass reports a face the request has ended in a
\* 4xx rejection that carries no bundle, and nothing was called after the
\* first pass: no cropper, no second pass, no second opinion.
C1_FaceStopsPipeline ==
    (vis.base # <<>> /\ vis.base[1].faceCount > 0) =>
        /\ vis.pc = "done"
        /\ vis.resp.status \in 400..499
        /\ DOMAIN vis.resp = {"status", "error"}
        /\ vis.trace = <<"prepForOCR", "annotateImage">>
        /\ vis.merged = <<>> /\ vis.cropSignals = <<>> /\ vis.opinionReply = <<>>

C1_Witness ==
    /\ vis.pc = "done"
    /\ vis.base # <<>> /\ vis.base[1].faceCount = 2
    /\ vis.resp.status = 400

\* C8: with a valid image the answer is an error only when the first pass saw
\* a face or preprocessing / the first pass failed; once the face check is
\* passed, whatever fails later, the request ends with status 200 and a bundle.
C8_OnlyFirstPassIsFatal ==
    /\ (vis.image = "image" /\ vis.resp.status \notin {0, 200}) =>
          \/ vis.base # <<>> /\ vis.base[1].faceCount > 0 /\ vis.resp.status = 400
          \/ /\ vis.base = <<>>
             /\ vis.trace \in {<<"prepForOCR">>, <<"prepForOCR", "annotateImage">>}
             /\ vis.resp.status = 500
    /\ (vis.merged # <<>> /\ vis.pc = "done") =>
          /\ vis.resp.status = 200
          /\ "bundle" \in DOMAIN vis.resp

\* the second pass was asked and failed, and so did the second opinion
C8_Witness ==
    /\ vis.pc = "done"
    /\ vis.resp.status = 200
    /\ Count(vis.trace, "annotateImage") = 2
    /\ vis.cropSignals = <<>>
    /\ vis.opinionReply = <<[kind |-> "error"]>>

\* the region the cropper selects: the highest score, the first of equals
IsTop(anns, i) ==
    /\ \A j \in DOMAIN anns : anns[j].score <= anns[i].score
    /\ \A j \in 1..(i - 1) : anns[j].score < anns[i].score

BundleFields ==
    {"labels", "logos", "objects", "ocrText", "bestGuess", "webEntities",
     "faceCount", "safeSearch"}

\* C9: while no crop signals have been obtained (no region, the cropper threw,
\* crop preprocessing or the second pass threw, or the step is under way) the
\* merged bundle equals the first-pass bundle field by field, and so do the
\* fields of the answer the second opinion does not touch; a selected region
\* of fewer than 4 vertices is never cropped.
C9_NoCropNoMerge ==
    /\ (vis.merged # <<>> /\ vis.cropSignals = <<>>) =>
          /\ DOMAIN vis.merged[1] = BundleFields
          /\ \A f \in BundleFields : vis.merged[1][f] = vis.base[1][f]
          /\ (vis.pc = "done") =>
                \A f \in BundleFields \ {"logos", "webEntities"} :
                    vis.resp.bundle[f] = vis.base[1][f]
    /\ (vis.anns # <<>>) =>
          \A i \in DOMAIN vis.anns[1] :
              (IsTop(vis.anns[1], i) /\ Len(vis.anns[1][i].verts) < 4) =>
                  /\ vis.crop = <<>> /\ vis.cropSignals = <<>>
                  /\ Count(vis.trace, "metadata") = 0
                  /\ Count(vis.trace, "annotateImage") = 1

\* the best region is a triangle and the request has been answered
C9_Witness ==
    /\ vis.pc = "done"
    /\ vis.resp.status = 200
    /\ vis.anns # <<>> /\ vis.anns[1] # <<>>
    /\ Len(vis.anns[1][1].verts) = 3 /\ IsTop(vis.anns[1], 1)
    /\ vis.merged = vis.base

\* C10 as stated: after a failed call or a text that is not the structured
\* output, secondOpinion is null, nothing is folded in, the request succeeds.
C10_NullOnFailureOrUnparseable ==
    (vis.pc = "done" /\ vis.opinionReply # <<>>) =>
        LET reply == vis.opinionReply[1]
        IN  (reply.kind = "error" \/ reply.json = "invalid") =>
                /\ vis.resp.status = 200
                /\ vis.resp.secondOpinion = NoOpinion
                /\ vis.resp.bundle.logos = vis.merged[1].logos
                /\ vis.resp.bundle.webEntities = vis.merged[1].webEntities

\* C10 amended: after a failed call secondOpinion is null; after a text that
\* is not valid JSON it is the object with every field defaulted; either way
\* nothing is folded into logos or webEntities and the request succeeds.
C10_NullOrDefaults ==
    (vis.pc = "done" /\ vis.opinionReply # <<>>) =>
        LET reply == vis.opinionReply[1]
        IN  /\ (reply.kind = "error") => vis.resp.secondOpinion = NoOpinion
            /\ (reply.kind # "error" /\ reply.json = "invalid") =>
                  vis.resp.secondOpinion =
                      [brand |-> "", model |-> "", product_type |-> "",
                       synonyms |-> <<>>, confidence |-> 0]
            /\ (reply.kind = "error" \/ reply.json = "invalid") =>
                  /\ vis.resp.status = 200
                  /\ vis.resp.bundle.logos = vis.merged[1].logos
                  /\ vis.resp.bundle.webEntities = vis.merged[1].webEntities

C10_Witness ==
    /\ vis.pc = "done"
    /\ vis.opinionReply # <<>>
    /\ vis.opinionReply[1].kind = "content" /\ vis.opinionReply[1].json = "invalid"
    /\ vis.resp.status = 200
    /\ vis.resp.secondOpinion # NoOpinion
    /\ vis.merged[1].logos # <<>>

----------------------------------------------------------------------------
(* /api/search *)

\* C2: callEbayFinding is invoked (once) exactly when callEbayBrowse returned
\* false or pushed fewer than 4 listings, empty titles dropped and duplicates
\* still counted; before callEbayBrowse has returned, and when it is not
\* invoked, no Finding request is sent.
C2_FallbackIffUnavailableOrFew ==
    \A r \in Reqs :
        LET s == req[r]
            invoked == Count(s.trace, "callEbayFinding")
        IN  /\ invoked <= 1
            /\ (GotAt(s, "browse") = {}) => invoked = 0
            /\ \A i \in GotAt(s, "browse") :
                  (invoked = 1) <=>
                      (~s.got[i].ok \/ Len(s.got[i].listings) < 4)
            /\ (invoked = 0) => RegionCalls(s) = <<>>

\* the structured provider succeeded with 5 listings; no legacy call was made
C2_Witness ==
    \E r \in Reqs :
        /\ SearchDone(req[r])
        /\ \E i \in GotAt(req[r], "browse") :
              req[r].got[i].ok /\ Len(req[r].got[i].listings) = 5
        /\ Count(req[r].trace, "callEbayFinding") = 0
        /\ RegionCalls(req[r]) = <<>>

\* C3: the Finding requests of a search are EBAY-IE, EBAY-GB, EBAY-US in this
\* order, each sent only after every region before it failed, and none is
\* sent after a region that succeeded, whatever it returned.
C3_RegionsInOrderUntilSuccess ==
    \A r \in Reqs :
        LET s == req[r]
            calls == RegionCalls(s)
            order == <<"EBAY-IE", "EBAY-GB", "EBAY-US">>
        IN  /\ Len(calls) <= 3
            /\ \A i \in DOMAIN calls :
                  /\ calls[i] = "GET finding " \o order[i]
                  /\ \A j \in 1..(i - 1) :
                        \E k \in GotAt(s, order[j]) : ~s.got[k].ok
            /\ \A i \in 1..3 :
                  (\E k \in GotAt(s, order[i]) : s.got[k].ok) => Len(calls) = i

\* the structured provider failed, EBAY-IE answered 3 items: they are in the
\* answer and no other region was asked
C3_Witness ==
    \E r \in Reqs :
        /\ SearchDone(req[r])
        /\ \E i \in GotAt(req[r], "browse") : ~req[r].got[i].ok
        /\ \E k \in GotAt(req[r], "EBAY-IE") :
              /\ req[r].got[k].ok
              /\ Len(req[r].got[k].listings) = 3
              /\ \A n \in 1..3 :
                    \E m \in DOMAIN req[r].resp.results :
                        DedupKey(req[r].resp.results[m])
                            = DedupKey(req[r].got[k].listings[n])
        /\ RegionCalls(req[r]) = <<"GET finding EBAY-IE">>

\* C4: a search with a non-empty query invokes scrapeDoneDeal and
\* scrapeAdverts once each, and each sends its one request, whatever the
\* token exchange, the structured provider and the regions did.
C4_ScrapersAlwaysOnce ==
    \A r \in Reqs :
        LET s == req[r]
        IN  /\ \A what \in {"scrapeDoneDeal", "GET donedeal", "scrapeAdverts",
                            "GET adverts"} : Count(s.trace, what) <= 1
            /\ SearchDone(s) =>
                  \A what \in {"scrapeDoneDeal", "GET donedeal", "scrapeAdverts",
                               "GET adverts"} : Count(s.trace, what) = 1

\* the exchange, the item search and all three regions were tried and failed
C4_Witness ==
    \E r \in Reqs :
        /\ SearchDone(req[r])
        /\ Count(req[r].trace, "POST token") = 1
        /\ Count(req[r].trace, "GET browse") = 1
        /\ Len(RegionCalls(req[r])) = 3
        /\ \A i \in DOMAIN req[r].got :
              req[r].got[i].provider \in {"browse", "EBAY-IE", "EBAY-GB", "EBAY-US"}
                  => ~req[r].got[i].ok
        /\ Count(req[r].trace, "scrapeDoneDeal") = 1
        /\ Count(req[r].trace, "scrapeAdverts") = 1

\* C6: a call of getEbayAppToken returns the cached token without an exchange
\* exactly when it found a token cached and now < expiresAt - 60; a call that
\* found a token cached and now >= expiresAt - 60 (now = T - 60, T - 59)
\* performs the exchange.
C6_ReuseIffSixtySecondsLeft ==
    \A r \in Reqs :
        (req[r].found # <<>>) =>
            LET s == req[r]
                slot == s.found[1]
                valid == slot.token # "" /\ s.now < slot.exp - 60
                exchanged == Count(s.trace, "POST token") > 0
                \* the cached token came back and nothing was sent
                reused == ~exchanged /\ s.token # "" /\ s.token = slot.token
            IN  /\ valid <=> reused
                /\ (slot.token # "" /\ s.now >= slot.exp - 60) => exchanged
                /\ Count(s.trace, "POST token") <= 1

\* a call at now = T - 60 exchanged
C6_Witness ==
    \E r \in Reqs :
        /\ req[r].found # <<>>
        /\ req[r].found[1].token # ""
        /\ req[r].now = req[r].found[1].exp - 60
        /\ Count(req[r].trace, "POST token") = 1

\* C7: a search with a non-empty query never answers an error; its answer is
\* the de-duplication of everything the provider calls pushed, which holds a
\* listing for every listing of a provider that succeeded; and after a
\* provider that failed the next one in the order was still invoked.
C7_FailuresNeverFailTheSearch ==
    \A r \in Reqs :
        LET s == req[r]
        IN  /\ (s.query # "") => s.resp.status \in {0, 200}
            /\ SearchDone(s) =>
                  /\ s.resp.status = 200
                  /\ s.resp.results = Dedup(Collected(s))
                  /\ \A i \in DOMAIN s.got :
                        s.got[i].ok =>
                            \A n \in DOMAIN s.got[i].listings :
                                \E m \in DOMAIN s.resp.results :
                                    DedupKey(s.resp.results[m])
                                        = DedupKey(s.got[i].listings[n])
                  /\ (\E i \in GotAt(s, "browse") : ~s.got[i].ok) =>
                        Count(s.trace, "callEbayFinding") = 1
                  /\ \A j \in 1..2 :
                        (\E k \in GotAt(s, Regions[j]) : ~s.got[k].ok) =>
                            Count(s.trace, "GET finding " \o Regions[j + 1]) = 1
                  /\ Count(s.trace, "scrapeDoneDeal") = 1
                  /\ Count(s.trace, "scrapeAdverts") = 1

\* the item search and EBAY-IE failed, EBAY-GB answered, DoneDeal failed,
\* Adverts answered: status 200 with listings of both
C7_Witness ==
    \E r \in Reqs :
        LET s == req[r]
        IN  /\ SearchDone(s)
            /\ s.resp.status = 200
            /\ \E i \in GotAt(s, "browse") : ~s.got[i].ok
            /\ \E i \in GotAt(s, "EBAY-IE") : ~s.got[i].ok
            /\ \E i \in GotAt(s, "EBAY-GB") : s.got[i].ok /\ s.got[i].listings # <<>>
            /\ \E i \in GotAt(s, "donedeal") : ~s.got[i].ok
            /\ \E i \in GotAt(s, "adverts") : s.got[i].ok
            /\ \E m \in DOMAIN s.resp.results : s.resp.results[m].source = "Adverts.ie"
            /\ \E m \in DOMAIN s.resp.results : s.resp.results[m].source = "eBay (EBAY-GB)"

----------------------------------------------------------------------------
(* The de-duplication loop *)

Triple(l) == <<l.title, l.price, l.source>>

RECURSIVE IsSubsequence(_, _)
IsSubsequence(xs, ys) ==
    IF xs = <<>> THEN TRUE
    ELSE IF ys = <<>> THEN FALSE
    ELSE IF Head(xs) = Head(ys) THEN IsSubsequence(Tail(xs), Tail(ys))
    ELSE IsSubsequence(xs, Tail(ys))

\* C5: the de-duplicated result holds exactly one listing for each
\* (title, price, source) that occurs in the input, that listing is the first
\* one of the input with this triple, and the result is a subsequence of the
\* input.
C5_OnePerTripleFirstKept ==
    (fnPc = "done") =>
        /\ \A i \in DOMAIN fnArg :
              Cardinality({j \in DOMAIN fnRet :
                              Triple(fnRet[j]) = Triple(fnArg[i])}) = 1
        /\ \A j \in DOMAIN fnRet :
              \E i \in DOMAIN fnArg :
                  /\ fnRet[j] = fnArg[i]
                  /\ \A h \in 1..(i - 1) : Triple(fnArg[h]) # Triple(fnArg[i])
        /\ IsSubsequence(fnRet, fnArg)

----------------------------------------------------------------------------
(* The merge of the crop's signals and the fold of the second opinion *)

Elems(xs) == {xs[i] : i \in DOMAIN xs}

NoRepeat(xs) == \A i, j \in DOMAIN xs : xs[i] = xs[j] => i = j

IsPrefix(xs, ys) == Len(xs) <= Len(ys) /\ SubSeq(ys, 1, Len(xs)) = xs

\* C11: once the crop's signals are merged, the merged logos hold every logo
\* of base and of cropSignals and the merged webEntities every web entity of
\* both, neither holds a string twice, and the fold of the second opinion
\* keeps every entry in place, adds at most the brand (the product type) and
\* leaves no string twice.
C11_MergeKeepsAllNoRepeat ==
    (vis.cropSignals # <<>>) =>
        LET base == vis.base[1]
            crop == vis.cropSignals[1]
            merged == vis.merged[1]
        IN  /\ Elems(merged.logos) = Elems(base.logos) \cup Elems(crop.logos)
            /\ Elems(merged.webEntities)
                 = Elems(base.webEntities) \cup Elems(crop.webEntities)
            /\ NoRepeat(merged.logos)
            /\ NoRepeat(merged.webEntities)
            /\ (vis.pc = "done") =>
                  LET out == vis.resp.bundle
                      so == vis.resp.secondOpinion
                      brand == IF so = NoOpinion \/ so.brand = ""
                               THEN {} ELSE {so.brand}
                      ptype == IF so = NoOpinion \/ so.product_type = ""
                               THEN {} ELSE {so.product_type}
                  IN  /\ IsPrefix(merged.logos, out.logos)
                      /\ IsPrefix(merged.webEntities, out.webEntities)
                      /\ Elems(out.logos) = Elems(merged.logos) \cup brand
                      /\ Elems(out.webEntities)
                           = Elems(merged.webEntities) \cup ptype
                      /\ NoRepeat(out.logos)
                      /\ NoRepeat(out.webEntities)

\* both passes report "Dyson" and "Vacuum", the first one "Nike" twice, and
\* the second opinion names a brand and a type the bundle already holds
C11_Witness ==
    /\ vis.pc = "done"
    /\ vis.cropSignals # <<>>
    /\ \E i, j \in DOMAIN vis.base[1].logos :
          i # j /\ vis.base[1].logos[i] = vis.base[1].logos[j]
    /\ Elems(vis.base[1].webEntities) \cap Elems(vis.cropSignals[1].webEntities) # {}
    /\ vis.resp.secondOpinion # NoOpinion
    /\ vis.resp.secondOpinion.brand \in Elems(vis.merged[1].logos)
    /\ vis.resp.secondOpinion.product_type \in Elems(vis.merged[1].webEntities)

----------------------------------------------------------------------------
(* modelHints *)

\* every candidate the three expressions match in t, as matched, in the
\* order the code reads them: pass by pass, each pass from left to right
Candidates(t) ==
    MatchAll("digits", t, 1) \o MatchAll("prefix", t, 1) \o MatchAll("general", t, 1)

HasLower(h) == \E i \in DOMAIN h : IsLower(h[i])

\* C12: modelHints has at most 10 entries, no entry twice, every entry is a
\* candidate in upper case, and candidates that differ only in the case of
\* their letters give one entry.
C12_HintsCappedUpperNoRepeat ==
    (fnPc = "done") =>
        /\ Len(fnRet) <= 10
        /\ NoRepeat(fnRet)
        /\ \A i \in DOMAIN fnRet :
              /\ ~HasLower(fnRet[i])
              /\ \E c \in Elems(Candidates(fnArg)) : toUpperCase(c) = fnRet[i]
        /\ \A c \in Elems(Candidates(fnArg)) :
              Cardinality({i \in DOMAIN fnRet :
                              toUpperCase(fnRet[i]) = toUpperCase(c)}) <= 1

\* "sm-g991b SM-G991B Sm-a5" gives SM-G991B once
C12_Witness ==
    /\ fnPc = "done"
    /\ fnArg = JoinWords(<< <<"s", "m", "-", "g", "9", "9", "1", "b">>,
                            <<"S", "M", "-", "G", "9", "9", "1", "B">>,
                            <<"S", "m", "-", "a", "5">> >>)
    /\ fnRet = << <<"S", "M", "-", "G", "9", "9", "1", "B">>,
                  <<"S", "M", "-", "A", "5">> >>

----------------------------------------------------------------------------
(* Credentials that are not configured *)

\* C13: a search that finds no valid token cached while the client
\* credentials are not configured sends no exchange and no item search,
\* callEbayBrowse returns false having pushed nothing, no error is answered,
\* and callEbayFinding and then both scrapers are invoked.
C13_NoCredentialsIsUnavailable ==
    \A r \in Reqs :
        LET s == req[r]
        IN  (/\ s.found # <<>>
             /\ ~(s.found[1].token # "" /\ s.now < s.found[1].exp - 60)
             /\ ~hasCreds) =>
                /\ Count(s.trace, "POST token") = 0
                /\ Count(s.trace, "GET browse") = 0
                /\ s.token = ""
                /\ \E i \in GotAt(s, "browse") :
                      ~s.got[i].ok /\ s.got[i].listings = <<>>
                /\ Count(s.trace, "callEbayFinding") = 1
                /\ hasAppId => Count(s.trace, "GET finding EBAY-IE") = 1
                /\ s.resp.status \in {0, 200}
                /\ SearchDone(s) =>
                      /\ s.resp.status = 200
                      /\ Count(s.trace, "scrapeDoneDeal") = 1
                      /\ Count(s.trace, "scrapeAdverts") = 1

\* without credentials, a region answered and so did a scraped site
C13_Witness ==
    \E r \in Reqs :
        /\ ~hasCreds
        /\ SearchDone(req[r])
        /\ req[r].found # <<>>
        /\ Count(req[r].trace, "POST token") = 0
        /\ \E i \in GotAt(req[r], "EBAY-IE") : req[r].got[i].ok
        /\ \E i \in GotAt(req[r], "donedeal") : req[r].got[i].ok
        /\ req[r].resp.status = 200
        /\ req[r].resp.results # <<>>

----------------------------------------------------------------------------
(* Validation of the request fields *)

\* the search request r was answered "query required"
SearchRejected(r) == req[r].pc = "done" /\ req[r].query = ""

\* the vision request was answered for a missing or zero-byte image
VisionRejected == vis.pc = "done" /\ vis.image \in {"", "undecodable"}

C14_NoCallMade ==
    /\ \A r \in Reqs :
          SearchRejected(r) =>
              /\ req[r].resp.status = 400
              /\ req[r].trace = <<>>
              /\ req[r].found = <<>>
              /\ req[r].got = <<>>
    /\ VisionRejected =>
          /\ vis.resp.status = 400
          /\ vis.trace = <<>>
          /\ vis.base = <<>>
          /\ vis.opinionReply = <<>>

C14_CacheKept ==
    (\/ \E r \in Reqs : req'[r] # req[r] /\ SearchRejected(r)'
     \/ vis' # vis /\ VisionRejected')
        => UNCHANGED <<ebayToken, ebayTokenExp>>

\* C14: a search without a query and a vision request without an image, or
\* with one that decodes to zero bytes, are answered 400 with no call made
\* (no preprocessing, analysis, second opinion, exchange or marketplace
\* request), and the step that rejects them leaves the token cache as it was.
C14_RejectedBeforeAnyCall == []C14_NoCallMade /\ [][C14_CacheKept]_vars

\* a token is cached, the last search had no query and the last vision
\* request an image of zero bytes
C14_Witness ==
    /\ SearchRejected("r1")
    /\ req["r1"].resp.status = 400
    /\ ebayToken # NoToken
    /\ VisionRejected
    /\ vis.image = "undecodable"

----------------------------------------------------------------------------
(* The token cache under requests in flight together *)

\* what an exchange answered with reply, begun at now, leaves in the slot
SlotOf(reply, now) ==
    [token |-> reply.access_token,
     exp |-> now + (IF reply.expires_in = 0 THEN 7200 ELSE reply.expires_in)]

Slot == [token |-> ebayToken, exp |-> ebayTokenExp]

\* the slot is empty or holds the token and the expiry of one response
C15_SlotOfOneResponse ==
    \/ Slot = [token |-> "", exp |-> 0]
    \/ \E reply \in TokenReplies, now \in Times :
          reply.ok /\ Slot = SlotOf(reply, now)

\* a step changes the slot only when an exchange completes, and then the slot
\* is that exchange's response and its caller goes on with that token
C15_LastWriteWins ==
    /\ (Slot' # Slot) =>
          \E r \in Reqs : req[r].pc = "token" /\ req'[r].pc # "token"
    /\ \A r \in Reqs :
          (req[r].pc = "token" /\ req'[r].pc # "token") =>
              \/ /\ Slot' = Slot
                 /\ req'[r].token = ""
                 /\ \E i \in GotAt(req'[r], "browse") : ~req'[r].got[i].ok
              \/ \E reply \in TokenReplies :
                    /\ reply.ok
                    /\ Slot' = SlotOf(reply, req[r].now)
                    /\ req'[r].token = reply.access_token
                    /\ (reply.access_token # "") =>
                          req'[r].trace = Append(req[r].trace, "GET browse")

\* C15: under every interleaving of two searches the cached token and the
\* cached expiry are those of one exchange response, every exchange that
\* completes replaces both (so the slot holds the one that completed last),
\* and the caller of an exchange goes on with the token of its own response.
C15_AtomicReplace == []C15_SlotOfOneResponse /\ [][C15_LastWriteWins]_vars

\* both requests found the slot empty, both exchanged, each holds its own
\* token, and the slot holds tokB
C15_Witness ==
    /\ \A r \in Reqs :
          /\ req[r].found = <<[token |-> "", exp |-> 0]>>
          /\ Count(req[r].trace, "POST token") = 1
    /\ req["r1"].token = "tokA"
    /\ req["r2"].token = "tokB"
    /\ ebayToken = "tokB"
    /\ ebayTokenExp = req["r2"].now + 7200

----------------------------------------------------------------------------
(* The key of the de-duplication *)

\* the key as the data model words it: title, price and source as they are,
\* a null price standing as the empty string
ExactKey(l) == <<l.title, IF l.price = Null THEN <<>> ELSE <<l.price>>, l.source>>

\* C16: two listings are collapsed only if title, price and source are all
\* identical, a null price compared as the empty string: the result has one
\* listing for each key of the input, so listings that differ in a field
\* (price 0 against no price) are both kept.
C16_CollapsedOnlyIfIdentical ==
    (fnPc = "done") =>
        /\ Len(fnRet) = Cardinality({ExactKey(fnArg[i]) : i \in DOMAIN fnArg})
        /\ \A i, j \in DOMAIN fnArg :
              (ExactKey(fnArg[i]) # ExactKey(fnArg[j])) =>
                  \E h, k \in DOMAIN fnRet :
                      /\ h # k
                      /\ ExactKey(fnRet[h]) = ExactKey(fnArg[i])
                      /\ ExactKey(fnRet[k]) = ExactKey(fnArg[j])

----------------------------------------------------------------------------
(* The logos and web entities of the answer *)

\* C17: in every bundle /api/vision answers, logos holds no string twice and
\* webEntities holds no string twice, whether or not a crop pass was merged
\* and a second opinion folded in, also when one pass reports a string twice.
C17_AnswerHasNoRepeat ==
    (vis.pc = "done" /\ vis.resp.status = 200) =>
        /\ NoRepeat(vis.resp.bundle.logos)
        /\ NoRepeat(vis.resp.bundle.webEntities)

----------------------------------------------------------------------------
(* The order of modelHints *)

\* the place of hint h among the candidates of t: the first candidate that
\* is h once in upper case
FirstAt(t, h) ==
    LET cs == Candidates(t)
    IN  CHOOSE i \in DOMAIN cs :
            /\ toUpperCase(cs[i]) = h
            /\ \A j \in 1..(i - 1) : toUpperCase(cs[j]) # h

\* modelHints is the duplicate-free sequence of the candidates, each at the
\* place of its first occurrence, cut after 10
HintsKeepFirstPlaces ==
    LET cs == Candidates(fnArg)
    IN  /\ NoRepeat(fnRet)
        /\ \A k \in DOMAIN fnRet : \E i \in DOMAIN cs : toUpperCase(cs[i]) = fnRet[k]
        /\ \A k, l \in DOMAIN fnRet :
              k < l => FirstAt(fnArg, fnRet[k]) < FirstAt(fnArg, fnRet[l])
        /\ \A i \in DOMAIN cs :
              \/ \E k \in DOMAIN fnRet : fnRet[k] = toUpperCase(cs[i])
              \/ /\ Len(fnRet) = 10
                 /\ FirstAt(fnArg, fnRet[10]) < i

hintSM == <<"S", "M", "-", "G", "9", "9", "1", "B">>
hint123456 == <<"1", "2", "3", "4", "5", "6">>

\* C18 as stated: the candidates keep their first places and the text
\* "Model SM-G991B spare part 123456" gives "SM-G991B" before "123456".
C18_ModelBeforeNumber ==
    (fnPc = "done") =>
        /\ HintsKeepFirstPlaces
        /\ (fnArg = ocrModel) =>
              \E k, l \in DOMAIN fnRet :
                  k < l /\ fnRet[k] = hintSM /\ fnRet[l] = hint123456

\* C18: the candidates are read pass by pass (digit runs, then vendor
\* models, then general tokens), each pass from left to right, and modelHints
\* is their duplicate-free sequence cut after 10; the text
\* "Model SM-G991B spare part 123456" gives "123456" and then "SM-G991B".
C18_HintsInPassOrder ==
    (fnPc = "done") =>
        /\ HintsKeepFirstPlaces
        /\ (fnArg = ocrModel) => fnRet = <<hint123456, hintSM>>

C18_Witness ==
    /\ fnPc = "done"
    /\ fnArg = ocrModel
    /\ fnRet = <<hint123456, hintSM>>

----------------------------------------------------------------------------
(* The order of the listings of an answer *)

\* the place of a listing's provider in the order of the handler
ProviderRank(l) ==
    IF l.source = "eBay (EBAY_GB)" THEN 1
    ELSE IF l.source \in {"eBay (EBAY-IE)", "eBay (EBAY-GB)", "eBay (EBAY-US)"} THEN 2
    ELSE IF l.source = "DoneDeal" THEN 3
    ELSE IF l.source = "Adverts.ie" THEN 4
    ELSE 0

\* C19: in the answer of a search every Browse listing precedes every Finding
\* listing, which precedes every DoneDeal listing, which precedes every
\* Adverts listing, and the answer is a subsequence of the listings in the
\* order the provider calls pushed them, so two listings of one provider
\* keep the order the provider returned them in.
C19_ProviderOrderKept ==
    \A r \in Reqs :
        SearchDone(req[r]) =>
            LET out == req[r].resp.results
            IN  /\ \A i \in DOMAIN out : ProviderRank(out[i]) \in 1..4
                /\ \A i, j \in DOMAIN out :
                      i < j => ProviderRank(out[i]) <= ProviderRank(out[j])
                /\ IsSubsequence(out, Collected(req[r]))
                /\ \A n \in DOMAIN req[r].got :
                      IsSubsequence(
                          SelectSeq(out, LAMBDA l :
                              /\ \E m \in DOMAIN req[r].got[n].listings :
                                    req[r].got[n].listings[m] = l
                              /\ \A k \in DOMAIN req[r].got :
                                    k # n => \A m \in DOMAIN req[r].got[k].listings :
                                                req[r].got[k].listings[m] # l),
                          req[r].got[n].listings)

\* listings of all four providers, two of them at least from each
C19_Witness ==
    \E r \in Reqs :
        /\ SearchDone(req[r])
        /\ \A k \in 1..4 :
              Cardinality({i \in DOMAIN req[r].resp.results :
                              ProviderRank(req[r].resp.results[i]) = k}) >= 2

----------------------------------------------------------------------------
(* The region the cropper selects *)

\* C20: the cropper looks at one region only, the one of the highest score
\* and among equals the first: with no region, or with fewer than 4 vertices
\* on that region (whatever the other regions have), it returns "no region",
\* the request is not failed and nothing is cropped; a crop is the rectangle
\* of that region's vertices.
C20_OnlyTopRegion ==
    (vis.anns # <<>>) =>
        LET anns == vis.anns[1]
        IN  /\ (anns = <<>>) =>
                  /\ vis.top = <<>> /\ vis.crop = <<>> /\ vis.cropSignals = <<>>
                  /\ Count(vis.trace, "metadata") = 0
                  /\ vis.pc \in {"opinion", "done"}
                  /\ vis.resp.status \in {0, 200}
            /\ \A i \in DOMAIN anns :
                  IsTop(anns, i) =>
                      /\ (Len(anns[i].verts) < 4) =>
                            /\ vis.top = <<>> /\ vis.crop = <<>>
                            /\ vis.cropSignals = <<>>
                            /\ Count(vis.trace, "metadata") = 0
                            /\ vis.pc \in {"opinion", "done"}
                            /\ vis.resp.status \in {0, 200}
                      /\ (Len(anns[i].verts) >= 4) => vis.top = <<anns[i]>>
                      /\ (vis.crop # <<>>) =>
                            \E reply \in MetadataReplies :
                                /\ reply.ok
                                /\ vis.crop[1] = CropRect(anns[i].verts, reply.width,
                                                          reply.height)

\* the best region is a triangle and a lower one has 4 vertices: the bundle
\* is answered without a crop
C20_Witness ==
    /\ vis.pc = "done"
    /\ vis.resp.status = 200
    /\ vis.anns # <<>>
    /\ \E i, j \in DOMAIN vis.anns[1] :
          /\ IsTop(vis.anns[1], i)
          /\ Len(vis.anns[1][i].verts) = 3
          /\ Len(vis.anns[1][j].verts) = 4
    /\ vis.crop = <<>>
    /\ Count(vis.trace, "metadata") = 0

----------------------------------------------------------------------------
(* The price of a scraped listing *)

\* C21: the price of a scraped listing is the amount its price text shows,
\* currency symbol and thousands separators stripped and a decimal comma
\* read as a decimal point ("€1,250" is 1250, "€1.250,50" is 1250.50,
\* "€45,99" is 45.99), and null when the card shows no price text.
C21_PriceIsAmountShown ==
    (fnPc = "done") =>
        fnRet = <<IF fnArg.shown THEN Num(fnArg.amount) ELSE Null>>

----------------------------------------------------------------------------
(* An exchange that fails *)

\* the exchange of request s was sent and failed
ExchangeFailed(s) == \E i \in GotAt(s, "token") : ~s.got[i].ok

\* an exchange is sent only by a call that found no valid token, and one that
\* failed gave its request no token: callEbayBrowse returned false without
\* searching, and the request went on without an error
C22_FailureIsUnavailable ==
    \A r \in Reqs :
        LET s == req[r]
        IN  /\ (Count(s.trace, "POST token") > 0) =>
                  /\ s.found # <<>>
                  /\ \/ s.found[1].token = ""
                     \/ s.now >= s.found[1].exp - 60
            /\ ExchangeFailed(s) =>
                  /\ s.token = ""
                  /\ Count(s.trace, "GET browse") = 0
                  /\ \E i \in GotAt(s, "browse") :
                        ~s.got[i].ok /\ s.got[i].listings = <<>>
                  /\ Count(s.trace, "callEbayFinding") = 1
                  /\ s.resp.status \in {0, 200}
                  /\ SearchDone(s) => s.resp.status = 200

\* the step in which an exchange fails leaves the slot alone, and the search
\* that follows a request whose exchange failed sends the exchange again
C22_SlotKeptAndRetried ==
    \A r \in Reqs :
        /\ (req[r].pc = "token" /\ ExchangeFailed(req'[r])) => Slot' = Slot
        /\ (/\ req[r].pc = "done" /\ ExchangeFailed(req[r])
            /\ req'[r] # req[r] /\ req'[r].query # "") =>
                Count(req'[r].trace, "POST token") = 1

\* C22: an exchange that fails leaves the token and the expiry of the slot as
\* they were, only makes callEbayBrowse return false for that request, and
\* the next search sends the exchange again; an exchange is sent only by a
\* call that found the slot empty or not valid.
C22_FailedExchangeKeepsSlot ==
    []C22_FailureIsUnavailable /\ [][C22_SlotKeptAndRetried]_vars

\* tokA was cached and had 60 seconds left or fewer; the exchange of this
\* search failed, the answer is 200 and the slot still holds tokA
C22_Witness ==
    \E r \in Reqs :
        /\ SearchDone(req[r])
        /\ ExchangeFailed(req[r])
        /\ req[r].found = <<[token |-> "tokA", exp |-> ebayTokenExp]>>
        /\ ebayToken = "tokA"
        /\ req[r].resp.status = 200

====
